---- MODULE Spec2Model ----
(***************************************************************************)
(* A model of tonic's server dispatcher (server/grpc.rs, struct Grpc) and  *)
(* of the codec pieces it drives: header negotiation, the framed-stream    *)
(* decoder and encoder, the status-to-HTTP mapping and the metadata merge. *)
(***************************************************************************)
EXTENDS Integers, Sequences, FiniteSets, TLC

(* ----------------------------- bounds --------------------------------- *)

\* longest message payload (in bytes) the environment produces
MaxLen == 2
\* most request frames a client sends on one request body
MaxFrames == 2
\* most items a response stream yields
MaxMsgs == 2

(* --------------------------- Option<T> -------------------------------- *)

None == <<>>

Some(x) == <<x>>

IsSome(o) == Len(o) = 1

Unwrap(o) == o[1]

(* ----------------------------- Code ----------------------------------- *)

Ok == 0

NotFound == 5

ResourceExhausted == 8

Unimplemented == 12

Internal == 13

\* Status::new(code, message); a message is a sequence of words
Status(code, message) == [code |-> code, message |-> message]

(* ---------------------- compression registry -------------------------- *)

\* CompressionEncoding::encodings(), in declaration order
Encodings == <<"gzip", "zstd">>

EncodingSet == {Encodings[i] : i \in DOMAIN Encodings}

\* EnabledCompressionEncodings::is_enabled
is_enabled(enabled, encoding) == encoding \in enabled

\* the enabled encodings in declaration order
RECURSIVE EnabledFrom(_, _)
EnabledFrom(enabled, i) ==
    IF i > Len(Encodings) THEN <<>>
    ELSE (IF is_enabled(enabled, Encodings[i]) THEN <<Encodings[i]>> ELSE <<>>)
         \o EnabledFrom(enabled, i + 1)

\* the accept-encoding value of an enabled set: its encodings, then identity
into_accept_encoding == [enabled \in SUBSET EncodingSet |->
    EnabledFrom(enabled, 1) \o <<"identity">>]

\* CompressionEncoding::from_accept_encoding_header: the first entry of the
\* client's grpc-accept-encoding that names an encoding enabled for sending
RECURSIVE FirstEnabled(_, _)
FirstEnabled(names, enabled) ==
    IF names = <<>> THEN None
    ELSE IF Head(names) \in EncodingSet /\ is_enabled(enabled, Head(names))
         THEN Some(Head(names))
         ELSE FirstEnabled(Tail(names), enabled)

from_accept_encoding_header(header, enabled) ==
    IF ~IsSome(header) THEN None ELSE FirstEnabled(Unwrap(header), enabled)

\* CompressionEncoding::from_encoding_header: Ok(None) for an absent or
\* identity grpc-encoding, Ok(Some(e)) for an enabled one, and otherwise
\* Unimplemented with a message listing the accepted encodings
from_encoding_header(header, enabled) ==
    IF ~IsSome(header) \/ header = Some("identity")
    THEN [ok |-> TRUE, value |-> None, status |-> Status(Ok, <<>>)]
    ELSE IF Unwrap(header) \in EncodingSet /\ is_enabled(enabled, Unwrap(header))
    THEN [ok |-> TRUE, value |-> header, status |-> Status(Ok, <<>>)]
    ELSE [ok |-> FALSE, value |-> None,
          status |-> Status(Unimplemented,
                            <<"accept-encoding">> \o into_accept_encoding[enabled])]

\* the compression plug-in: compress prefixes the algorithm's magic byte
Magic == [gzip |-> 31, zstd |-> 40]

compress(encoding, bytes) == <<Magic[encoding]>> \o bytes

decompress(encoding, bytes) ==
    IF bytes # <<>> /\ bytes[1] = Magic[encoding] THEN Some(Tail(bytes)) ELSE None

(* ------------------------- the 5-byte frame --------------------------- *)

HEADER_SIZE == 5

\* [1 byte compressed flag][4 bytes length, big-endian]
encode_header(flag, len) ==
    << flag,
       (len \div 16777216) % 256,
       (len \div 65536) % 256,
       (len \div 256) % 256,
       len % 256 >>

parse_header(b) ==
    [flag |-> b[1],
     len  |-> b[2] * 16777216 + b[3] * 65536 + b[4] * 256 + b[5]]

\* the limit used when none is configured (4 MiB)
DEFAULT_MAX_MESSAGE_SIZE == 4194304

limit_of(max_message_size) ==
    IF IsSome(max_message_size) THEN Unwrap(max_message_size)
    ELSE DEFAULT_MAX_MESSAGE_SIZE

(* ------------------------------ Codec --------------------------------- *)

\* a byte no message of the codec contains: decoding it is a codec error
InvalidByte == 255

\* a message carries its data; the encoder writes the data out
codec_encode(m) == m.data

\* the decoder: the message, or None on a codec error
codec_decode(bytes) ==
    IF \E i \in DOMAIN bytes : bytes[i] = InvalidByte THEN None
    ELSE Some([data |-> bytes])

(* ---------------------------- Streaming ------------------------------- *)

\* Streaming::new_request(decoder, body, encoding, max_message_size)
Streaming_new_request(encoding, max_message_size) ==
    [state |-> "ReadHeader", encoding |-> encoding,
     max_message_size |-> max_message_size,
     flag |-> 0, len |-> 0, buffered |-> 0, frames |-> 0,
     status |-> Status(Ok, <<>>)]

\* the decoder on a complete 5-byte header: the compressed flag and the
\* declared length are checked before any of the frame's body is buffered
decode_header(st, bytes) ==
    LET h    == parse_header(bytes)
        read == [st EXCEPT !.flag = h.flag, !.len = h.len]
        flag == Status(Internal, <<"compressed flag without encoding">>)
        size == Status(ResourceExhausted, <<"message length too large">>)
    IN  IF h.flag = 1 /\ ~IsSome(st.encoding)
        THEN [ok |-> FALSE, status |-> flag,
              stream |-> [read EXCEPT !.state = "Error", !.status = flag]]
        ELSE IF h.len > limit_of(st.max_message_size)
        THEN [ok |-> FALSE, status |-> size,
              stream |-> [read EXCEPT !.state = "Error", !.status = size]]
        ELSE [ok |-> TRUE, status |-> Status(Ok, <<>>),
              stream |-> [read EXCEPT !.state = "ReadBody"]]

\* the decoder on the frame's complete body: decompress, then decode
decode_body(st, payload) ==
    LET raw == IF st.flag = 1 THEN decompress(Unwrap(st.encoding), payload)
                              ELSE Some(payload)
        msg == IF IsSome(raw) THEN codec_decode(Unwrap(raw)) ELSE None
        buf == [st EXCEPT !.buffered = Len(payload)]
        zip == Status(Internal, <<"decompress error">>)
        dec == Status(Internal, <<"decoder error">>)
    IN  IF ~IsSome(raw)
        THEN [ok |-> FALSE, message |-> None, status |-> zip,
              stream |-> [buf EXCEPT !.state = "Error", !.status = zip]]
        ELSE IF ~IsSome(msg)
        THEN [ok |-> FALSE, message |-> None, status |-> dec,
              stream |-> [buf EXCEPT !.state = "Error", !.status = dec]]
        ELSE [ok |-> TRUE,
              stream |-> [st EXCEPT !.state = "ReadHeader", !.buffered = 0,
                                    !.frames = st.frames + 1],
              message |-> msg, status |-> Status(Ok, <<>>)]

(* ---------------------------- encode_server --------------------------- *)

\* SingleMessageCompressionOverride::default()
Inherit == "Inherit"

Disable == "Disable"

\* encode_server(encoder, source, compression_encoding, override, max)
encode_server(compression_encoding, compression_override, max_message_size) ==
    [compression_encoding |->
        IF compression_override = Disable THEN None ELSE compression_encoding,
     compression_override |-> compression_override,
     max_message_size |-> max_message_size]

\* one item of the source: the bytes of its frame, or the status that ends
\* the body (a message longer than the limit yields no bytes at all)
encode_item(enc, m) ==
    LET bytes == codec_encode(m) IN
    IF Len(bytes) > limit_of(enc.max_message_size)
    THEN [ok |-> FALSE, frame |-> <<>>,
          status |-> Status(ResourceExhausted, <<"message length too large">>)]
    ELSE IF IsSome(enc.compression_encoding)
    THEN LET c == compress(Unwrap(enc.compression_encoding), bytes) IN
         [ok |-> TRUE, frame |-> encode_header(1, Len(c)) \o c,
          status |-> Status(Ok, <<>>)]
    ELSE [ok |-> TRUE, frame |-> encode_header(0, Len(bytes)) \o bytes,
          status |-> Status(Ok, <<>>)]

(* ------------------------- Status::to_http ---------------------------- *)

GRPC_CONTENT_TYPE == "application/grpc"

\* a trailers-only response: HTTP 200, the status in the headers, no body
to_http(status) ==
    [http_status |-> 200, content_type |-> GRPC_CONTENT_TYPE, grpc_encoding |-> None,
     grpc_status |-> Some(status.code), grpc_message |-> status.message,
     trailers_only |-> TRUE]

(* --------------------------- MetadataMap ------------------------------ *)

Keys == {"a", "b"}

EmptyMetadata == [k \in Keys |-> <<>>]

\* MetadataMap::merge(other): every key of other replaces the entry of self
merge(self, other) ==
    [k \in Keys |-> IF other[k] # <<>> THEN other[k] ELSE self[k]]

\* MetadataMap::get(key): the first value of the key
get(md, k) == IF md[k] = <<>> THEN None ELSE Some(md[k][1])

(* ------------------------------ state --------------------------------- *)

VARIABLES
    accept_compression_encodings,  \* Grpc: encodings accepted for requests
    send_compression_encodings,    \* Grpc: encodings offered for responses
    max_decoding_message_size,     \* Grpc: Option<usize>
    max_encoding_message_size,     \* Grpc: Option<usize>
    pc,               \* where the running operation is
    pattern,          \* which of the four operations runs
    req,              \* the http request's headers, as the client sent them
    accept_encoding,  \* the operation's local accept_encoding
    stream,           \* the Streaming decoder over the request body
    polled,           \* headers pulled off the request body, by who pulled
    request,          \* Option: the typed request the service was called with
    req_trailers,     \* Option: the trailers the request body ended with
    svc_calls,        \* how often service.call ran
    returned,         \* Option: what service.call resolved to
    failure,          \* Option: the Status the operation failed with
    response,         \* Option: the http response the operation returned
    encoder,          \* the response body's encoder (encode_server)
    source,           \* the response body's source: items left of a once()
    sent,             \* the messages the source has yielded so far
    wire,             \* the bytes of the response body so far
    resp_trailers,    \* Option: the status the response body ended with
    built,            \* what the Channel constructor that ran returned
    pipes,            \* the Buffer::pair()s made: bounded queue and worker of each
    handles,          \* the Channel values in existence: original and clones
    reqs,             \* the requests given to Channel::call, in the order given
    last_poll,        \* Option: the latest Channel::poll_ready and what it saw
    connector_calls,  \* how often the connector was invoked
    discovery,        \* the discovery change queue (tx -> DynamicServiceStream)
    endpoints,        \* the balancer's endpoint set: key -> state and load
    last_route        \* Option: the balancer's latest selection

grpc == << accept_compression_encodings, send_compression_encodings,
           max_decoding_message_size, max_encoding_message_size >>

call == << pc, pattern, req, accept_encoding, stream, polled, request,
           req_trailers, svc_calls, returned, failure, response, encoder,
           source, sent, wire, resp_trailers >>

chan == << built, pipes, handles, reqs, last_poll, connector_calls, discovery,
           endpoints, last_route >>

vars == << grpc, call, chan >>

Patterns == {"unary", "server_streaming", "client_streaming", "streaming"}

\* the patterns whose service returns one message
SingleResponse == {"unary", "client_streaming"}

NoRequest == [grpc_encoding |-> None, grpc_accept_encoding |-> None,
              metadata |-> EmptyMetadata]

\* a Streaming that no longer exists
Dropped == [Streaming_new_request(None, None) EXCEPT !.state = "Dropped"]

NoEncoder == encode_server(None, Inherit, None)

\* no Channel constructor has run
NotBuilt == [op |-> "none", result |-> "none"]

NoDiscovery == [capacity |-> 0, queue |-> <<>>, pushed |-> <<>>]

InitChannel ==
    /\ built = NotBuilt
    /\ pipes = <<>>
    /\ handles = <<>>
    /\ reqs = <<>>
    /\ last_poll = None
    /\ connector_calls = 0
    /\ discovery = NoDiscovery
    /\ endpoints = [k \in {} |-> None]
    /\ last_route = None

\* Grpc::new(codec), before any request; no Channel yet
Init ==
    /\ InitChannel
    /\ accept_compression_encodings = {}
    /\ send_compression_encodings = {}
    /\ max_decoding_message_size = None
    /\ max_encoding_message_size = None
    /\ pc = "idle"
    /\ pattern = "unary"
    /\ req = NoRequest
    /\ accept_encoding = None
    /\ stream = Streaming_new_request(None, None)
    /\ polled = [dispatcher |-> 0, service |-> 0]
    /\ request = None
    /\ req_trailers = None
    /\ svc_calls = 0
    /\ returned = None
    /\ failure = None
    /\ response = None
    /\ encoder = NoEncoder
    /\ source = <<>>
    /\ sent = <<>>
    /\ wire = <<>>
    /\ resp_trailers = None

(* --------------------------- the builders ------------------------------ *)

accept_compressed(encoding) ==
    /\ pc = "idle"
    /\ accept_compression_encodings' = accept_compression_encodings \cup {encoding}
    /\ UNCHANGED << chan, send_compression_encodings, max_decoding_message_size,
                    max_encoding_message_size, call >>

send_compressed(encoding) ==
    /\ pc = "idle"
    /\ send_compression_encodings' = send_compression_encodings \cup {encoding}
    /\ UNCHANGED << chan, accept_compression_encodings, max_decoding_message_size,
                    max_encoding_message_size, call >>

set_max_decoding_message_size(limit) ==
    /\ pc = "idle"
    /\ max_decoding_message_size' = Some(limit)
    /\ UNCHANGED << chan, accept_compression_encodings, send_compression_encodings,
                    max_encoding_message_size, call >>

set_max_encoding_message_size(limit) ==
    /\ pc = "idle"
    /\ max_encoding_message_size' = Some(limit)
    /\ UNCHANGED << chan, accept_compression_encodings, send_compression_encodings,
                    max_decoding_message_size, call >>

(* ------------------------- the dispatcher ------------------------------ *)

\* t! answering an Err(status) with an HTTP-level error
t_http_error(status) == [to_http(status) EXCEPT !.http_status = 500]

\* the t! macro: an Err(status) leaves the operation as status.to_http()
t(status) == to_http(status)

\* request_encoding_if_supported checking against the encodings to send
request_encoding_send_set(r) ==
    from_encoding_header(r.grpc_encoding, send_compression_encodings)

\* Grpc::request_encoding_if_supported
request_encoding_if_supported(r) ==
    from_encoding_header(r.grpc_encoding, accept_compression_encodings)

\* the Streaming built with the limit of the other direction
new_request_encoding_limit(encoding) ==
    Streaming_new_request(encoding, max_encoding_message_size)

\* the Streaming both map_request_unary and map_request_streaming build
new_request(encoding) ==
    Streaming_new_request(encoding, max_decoding_message_size)

\* every operation going through map_request_unary
reads_message_always(p) == TRUE

\* which operations read the request message themselves (map_request_unary)
\* and which hand the Streaming to the service (map_request_streaming)
reads_message(p) == p \in {"unary", "server_streaming"}

\* Request::from_http_parts(parts, message)
from_http_parts(r, message) ==
    [body |-> <<"message", message>>, metadata |-> r.metadata]

\* Request::from_http(request.map(|body| Streaming::new_request(..)))
from_http(r) == [body |-> <<"stream">>, metadata |-> r.metadata]

\* an absent message reported under another code
missing_request_unimplemented ==
    Status(Unimplemented, <<"Missing request message.">>)

\* map_request_unary on what try_next returned with no message
missing_request_message == Status(Internal, <<"Missing request message.">>)

\* the trailers dropped instead of merged
with_trailers_dropped(rq, trailers) == rq

\* the trailers' values put after the headers' values of the same key
with_trailers_appended(rq, trailers) ==
    IF IsSome(trailers)
    THEN [rq EXCEPT !.metadata = [k \in Keys |-> @[k] \o Unwrap(trailers)[k]]]
    ELSE rq

\* map_request_unary on what stream.trailers() returned
with_trailers(rq, trailers) ==
    IF IsSome(trailers)
    THEN [rq EXCEPT !.metadata = merge(rq.metadata, Unwrap(trailers))]
    ELSE rq

\* the extension of the response never looked at
compression_override_ignored(res) == Inherit

\* compression_override_from_response(&response)
compression_override_from_response(res) ==
    IF res.ok /\ IsSome(res.extension) THEN Unwrap(res.extension) ELSE Inherit

\* the override each operation hands to map_response
override_of(p, res) ==
    IF p \in SingleResponse THEN compression_override_from_response(res)
    ELSE Inherit

\* map_response leaving grpc-encoding off the response
map_response_no_encoding_header(res, accept, compression_override, max_message_size) ==
    IF ~res.ok
    THEN [http |-> t(res.status), body |-> FALSE, encoder |-> NoEncoder]
    ELSE [http |-> [http_status |-> 200, content_type |-> GRPC_CONTENT_TYPE,
                    grpc_encoding |-> None, grpc_status |-> None,
                    grpc_message |-> <<>>, trailers_only |-> FALSE],
          body |-> TRUE,
          encoder |-> encode_server(accept, compression_override, max_message_size)]

\* map_response handing encode_server no limit
map_response_no_limit(res, accept, compression_override, max_message_size) ==
    IF ~res.ok
    THEN [http |-> t(res.status), body |-> FALSE, encoder |-> NoEncoder]
    ELSE [http |-> [http_status |-> 200, content_type |-> GRPC_CONTENT_TYPE,
                    grpc_encoding |-> accept, grpc_status |-> None,
                    grpc_message |-> <<>>, trailers_only |-> FALSE],
          body |-> TRUE,
          encoder |-> encode_server(accept, compression_override, None)]

\* map_response encoding with whatever the server offers first, whether
\* or not the client accepts it
map_response_offered(res, accept, compression_override, max_message_size) ==
    IF ~res.ok
    THEN [http |-> t(res.status), body |-> FALSE, encoder |-> NoEncoder]
    ELSE [http |-> [http_status |-> 200, content_type |-> GRPC_CONTENT_TYPE,
                    grpc_encoding |-> accept, grpc_status |-> None,
                    grpc_message |-> <<>>, trailers_only |-> FALSE],
          body |-> TRUE,
          encoder |-> encode_server(FirstEnabled(Encodings, send_compression_encodings),
                                    compression_override, max_message_size)]

\* Grpc::map_response: the http response and the encoder of its body
map_response(res, accept, compression_override, max_message_size) ==
    IF ~res.ok
    THEN [http |-> t(res.status), body |-> FALSE, encoder |-> NoEncoder]
    ELSE [http |-> [http_status |-> 200, content_type |-> GRPC_CONTENT_TYPE,
                    grpc_encoding |-> accept, grpc_status |-> None,
                    grpc_message |-> <<>>, trailers_only |-> FALSE],
          body |-> TRUE,
          encoder |-> encode_server(accept, compression_override, max_message_size)]

Err(status) == [ok |-> FALSE, status |-> status, extension |-> None]

\* tokio_stream::once(Ok(m)): the source of a single-message response
once(m) == <<m>>

\* the operation returns `http` for the Status it failed with
Fail(status, http) ==
    /\ failure' = Some(status)
    /\ response' = Some(http)
    /\ pc' = "done"

\* what an operation returns when map_request_unary / map_request_streaming
\* gave Err(status)
request_error(p, status, accept) ==
    IF reads_message(p)
    THEN map_response(Err(status), accept, Inherit, max_encoding_message_size).http
    ELSE t(status)

\* An operation up to its first suspension: accept_encoding is read off the
\* headers, the request encoding is checked, the Streaming is built, and
\* map_request_streaming's request goes to the service at once.
Enter(p, ge, gae, md) ==
    LET r   == [grpc_encoding |-> ge, grpc_accept_encoding |-> gae, metadata |-> md]
        ae  == from_accept_encoding_header(gae, send_compression_encodings)
        enc == request_encoding_if_supported(r)
    IN  /\ pc = "idle"
        /\ pattern' = p
        /\ req' = r
        /\ accept_encoding' = ae
        /\ IF ~enc.ok
           THEN /\ Fail(enc.status, request_error(p, enc.status, ae))
                /\ UNCHANGED << stream, request, svc_calls >>
           ELSE /\ stream' = new_request(enc.value)
                /\ UNCHANGED << failure, response >>
                /\ IF reads_message(p)
                   THEN /\ pc' = "try_next"
                        /\ UNCHANGED << request, svc_calls >>
                   ELSE /\ pc' = "service"
                        /\ request' = Some(from_http(r))
                        /\ svc_calls' = svc_calls + 1
        /\ UNCHANGED << chan, grpc, polled, req_trailers, returned, encoder, source, sent,
                        wire, resp_trailers >>

unary(ge, gae, md) == Enter("unary", ge, gae, md)

server_streaming(ge, gae, md) == Enter("server_streaming", ge, gae, md)

client_streaming(ge, gae, md) == Enter("client_streaming", ge, gae, md)

streaming(ge, gae, md) == Enter("streaming", ge, gae, md)

(* ----------------------- reading the request body ---------------------- *)

\* who holds the Streaming: the dispatcher inside map_request_unary, or the
\* service that was handed it
ByDispatcher == pc \in {"try_next", "trailers"}

ByService == pc = "service" /\ IsSome(request) /\ Unwrap(request).body = <<"stream">>

Poller == IF ByDispatcher THEN "dispatcher" ELSE "service"

\* the payloads a client may send for a frame of declared length n
Payloads(B, st) ==
    IF st.flag = 1 /\ IsSome(st.encoding)
    THEN (IF st.len = 0 THEN {<<>>}
          ELSE {compress(Unwrap(st.encoding), d) : d \in [1..(st.len - 1) -> B]})
         \cup {[i \in 1..st.len |-> 0]}
    ELSE [1..st.len -> B]

\* the body delivers a frame header and the decoder checks it
PollHeader(flag, len) ==
    LET r == decode_header(stream, encode_header(flag, len)) IN
    /\ ByDispatcher \/ ByService
    /\ stream.state = "ReadHeader"
    /\ polled.dispatcher + polled.service < MaxFrames
    /\ stream' = r.stream
    /\ polled' = [polled EXCEPT ![Poller] = @ + 1]
    /\ IF ~r.ok /\ ByDispatcher
       THEN Fail(r.status, request_error(pattern, r.status, accept_encoding))
       ELSE UNCHANGED << pc, failure, response >>
    /\ UNCHANGED << chan, grpc, pattern, req, accept_encoding, request, req_trailers,
                    svc_calls, returned, encoder, source, sent, wire, resp_trailers >>

\* map_request_unary refusing a message that follows the first
PollBody_refusing_further(payload) ==
    LET r       == decode_body(stream, payload)
        refused == Status(Internal, <<"Unexpected request message.">>)
    IN  /\ ByDispatcher \/ ByService
        /\ stream.state = "ReadBody"
        /\ stream' = r.stream
        /\ IF ByService
           THEN UNCHANGED << pc, failure, response, request >>
           ELSE IF ~r.ok
           THEN /\ Fail(r.status, request_error(pattern, r.status, accept_encoding))
                /\ UNCHANGED request
           ELSE IF pc = "try_next"
           THEN /\ request' = Some(from_http_parts(req, Unwrap(r.message)))
                /\ pc' = "trailers"
                /\ UNCHANGED << failure, response >>
           ELSE /\ Fail(refused, request_error(pattern, refused, accept_encoding))
                /\ UNCHANGED request
        /\ UNCHANGED << chan, grpc, pattern, req, accept_encoding, polled, req_trailers,
                        svc_calls, returned, encoder, source, sent, wire, resp_trailers >>

\* the body delivers the frame's payload and the decoder decodes it
PollBody(payload) ==
    LET r == decode_body(stream, payload) IN
    /\ ByDispatcher \/ ByService
    /\ stream.state = "ReadBody"
    /\ stream' = r.stream
    /\ IF ByService
       THEN UNCHANGED << pc, failure, response, request >>
       ELSE IF ~r.ok
       THEN /\ Fail(r.status, request_error(pattern, r.status, accept_encoding))
            /\ UNCHANGED request
       ELSE IF pc = "try_next"
       THEN /\ request' = Some(from_http_parts(req, Unwrap(r.message)))
            /\ pc' = "trailers"
            /\ UNCHANGED << failure, response >>
       ELSE UNCHANGED << pc, failure, response, request >>
    /\ UNCHANGED << chan, grpc, pattern, req, accept_encoding, polled, req_trailers,
                    svc_calls, returned, encoder, source, sent, wire, resp_trailers >>

\* the body ends, with trailers or without
PollEnd(trailers) ==
    /\ ByDispatcher \/ ByService
    /\ stream.state = "ReadHeader"
    /\ stream' = [stream EXCEPT !.state = "Done"]
    /\ req_trailers' = trailers
    /\ IF ByService
       THEN UNCHANGED << pc, failure, response, request, svc_calls >>
       ELSE IF pc = "try_next"
       THEN /\ Fail(missing_request_message,
                    request_error(pattern, missing_request_message, accept_encoding))
            /\ UNCHANGED << request, svc_calls >>
       ELSE /\ request' = Some(with_trailers(Unwrap(request), trailers))
            /\ svc_calls' = svc_calls + 1
            /\ pc' = "service"
            /\ UNCHANGED << failure, response >>
    /\ UNCHANGED << chan, grpc, pattern, req, accept_encoding, polled, returned, encoder,
                    source, sent, wire, resp_trailers >>

(* --------------------------- the service ------------------------------- *)

\* service.call(request) resolves; the operation maps what it returned
ServiceReturn(res) ==
    LET ov  == override_of(pattern, res)
        out == map_response(res, accept_encoding, ov, max_encoding_message_size)
    IN  /\ pc = "service"
        /\ res.ok => (IsSome(res.message) <=> pattern \in SingleResponse)
        /\ returned' = Some(res)
        /\ response' = Some(out.http)
        /\ encoder' = out.encoder
        /\ IF res.ok
           THEN /\ pc' = "body"
                /\ source' = IF IsSome(res.message) THEN once(Unwrap(res.message))
                             ELSE <<>>
                /\ UNCHANGED failure
           ELSE /\ pc' = "done"
                /\ failure' = Some(res.status)
                /\ UNCHANGED source
        \* the request, and the Streaming in it, were moved into the call
        /\ request' = None
        /\ stream' = Dropped
        /\ UNCHANGED << chan, grpc, pattern, req, accept_encoding, polled,
                        req_trailers, svc_calls, sent, wire, resp_trailers >>

(* ------------------------- the response body --------------------------- *)

\* the source yields Ok(m): its frame is written, or the body ends in error
EncodeMessage(m) ==
    LET r == encode_item(encoder, m) IN
    /\ pc = "body"
    /\ IF pattern \in SingleResponse
       THEN source # <<>> /\ m = Head(source) /\ source' = Tail(source)
       ELSE Len(sent) < MaxMsgs /\ UNCHANGED source
    /\ sent' = Append(sent, m)
    /\ IF r.ok
       THEN /\ wire' = wire \o r.frame
            /\ UNCHANGED << pc, resp_trailers >>
       ELSE /\ resp_trailers' = Some(r.status)
            /\ pc' = "done"
            /\ UNCHANGED wire
    /\ UNCHANGED << chan, grpc, pattern, req, accept_encoding, stream, polled, request,
                    req_trailers, svc_calls, returned, failure, response, encoder >>

\* the source yields Err(status): the body ends with that status
EncodeError(status) ==
    /\ pc = "body"
    /\ pattern \notin SingleResponse
    /\ resp_trailers' = Some(status)
    /\ pc' = "done"
    /\ UNCHANGED << chan, grpc, pattern, req, accept_encoding, stream, polled, request,
                    req_trailers, svc_calls, returned, failure, response, encoder,
                    source, sent, wire >>

\* the source is exhausted: the body ends with grpc-status OK
EncodeEnd ==
    /\ pc = "body"
    /\ pattern \in SingleResponse => source = <<>>
    /\ resp_trailers' = Some(Status(Ok, <<>>))
    /\ pc' = "done"
    /\ UNCHANGED << chan, grpc, pattern, req, accept_encoding, stream, polled, request,
                    req_trailers, svc_calls, returned, failure, response, encoder,
                    source, sent, wire >>

(* --------------------------- the environment --------------------------- *)

\* sequences over S of length at most n
SeqsUpTo(S, n) == UNION {[1..k -> S] : k \in 0..n}

\* grpc-encoding as a client may send it ("br" is no encoding of the registry)
EncodingHeaders == {None} \cup {Some(e) : e \in {"identity", "gzip", "br"}}

\* grpc-accept-encoding as a client may send it
AcceptHeaders ==
    {None, Some(<<"gzip">>), Some(<<"gzip", "zstd">>), Some(<<"zstd", "gzip">>),
     Some(<<"identity", "zstd">>)}

\* the limits a server is configured with
Limits == {1}

\* the bytes of message data
Bytes == {0}

\* a payload may also hold a byte the codec rejects
WireBytes == Bytes \cup {InvalidByte}

Messages == {[data |-> d] : d \in SeqsUpTo(Bytes, MaxLen)}

\* the statuses a service fails with
ServiceStatus == {Status(NotFound, <<"not found">>)}

Extensions == {None, Some(Inherit), Some(Disable)}

\* what a service may resolve to, its messages drawn from M
ServiceResultsOver(M, X) ==
    {[ok |-> TRUE, status |-> Status(Ok, <<>>), extension |-> x, message |-> m] :
        x \in X, m \in {None} \cup {Some(mm) : mm \in M}}
    \cup {[ok |-> FALSE, status |-> s, extension |-> None, message |-> None] :
        s \in ServiceStatus}

ServiceResults == ServiceResultsOver(Messages, Extensions)

Next ==
    \/ \E e \in EncodingSet : accept_compressed(e)
    \/ \E e \in EncodingSet : send_compressed(e)
    \/ \E l \in Limits : set_max_decoding_message_size(l)
    \/ \E l \in Limits : set_max_encoding_message_size(l)
    \/ \E ge \in EncodingHeaders, gae \in AcceptHeaders : unary(ge, gae, EmptyMetadata)
    \/ \E ge \in EncodingHeaders, gae \in AcceptHeaders :
          server_streaming(ge, gae, EmptyMetadata)
    \/ \E ge \in EncodingHeaders, gae \in AcceptHeaders :
          client_streaming(ge, gae, EmptyMetadata)
    \/ \E ge \in EncodingHeaders, gae \in AcceptHeaders : streaming(ge, gae, EmptyMetadata)
    \/ \E flag \in {0, 1}, len \in 0..MaxLen : PollHeader(flag, len)
    \/ \E payload \in Payloads(WireBytes, stream) : PollBody(payload)
    \/ PollEnd(None)
    \/ \E res \in ServiceResults : ServiceReturn(res)
    \/ \E m \in Messages : EncodeMessage(m)
    \/ \E s \in ServiceStatus : EncodeError(s)
    \/ EncodeEnd

Spec == Init /\ [][Next]_vars

(* ------------------- the framing, on richer messages ------------------- *)

\* message data of more than one byte value
DataBytes == {0, 7}

DataMessages == {[data |-> d] : d \in SeqsUpTo(DataBytes, MaxLen)}

\* the operations on requests without compression, their responses drawn
\* from DataMessages
NextFraming ==
    \/ \E e \in EncodingSet : send_compressed(e)
    \/ \E l \in Limits : set_max_encoding_message_size(l)
    \/ \E gae \in {None, Some(<<"gzip">>)} : unary(None, gae, EmptyMetadata)
    \/ \E gae \in {None, Some(<<"gzip">>)} : server_streaming(None, gae, EmptyMetadata)
    \/ \E gae \in {None, Some(<<"gzip">>)} : client_streaming(None, gae, EmptyMetadata)
    \/ \E gae \in {None, Some(<<"gzip">>)} : streaming(None, gae, EmptyMetadata)
    \/ \E len \in 0..1 : PollHeader(0, len)
    \/ \E payload \in Payloads(Bytes, stream) : PollBody(payload)
    \/ PollEnd(None)
    \/ \E res \in ServiceResultsOver(DataMessages, {None}) : ServiceReturn(res)
    \/ \E m \in DataMessages : EncodeMessage(m)
    \/ \E s \in ServiceStatus : EncodeError(s)
    \/ EncodeEnd

FramingSpec == Init /\ [][NextFraming]_vars

(* ------------------- the metadata of a unary request ------------------- *)

\* the values a key has in the request headers, and in the trailers
HeaderValues == {<<>>, <<"h1">>, <<"h1", "h2">>}

TrailerValues == {<<>>, <<"t1">>, <<"t1", "t2">>}

\* the operations on requests that carry metadata and may end in trailers
NextMetadata ==
    \/ \E md \in [Keys -> HeaderValues] : unary(None, None, md)
    \/ \E md \in [Keys -> HeaderValues] : server_streaming(None, None, md)
    \/ \E md \in [Keys -> HeaderValues] : client_streaming(None, None, md)
    \/ \E md \in [Keys -> HeaderValues] : streaming(None, None, md)
    \/ \E len \in 0..1 : PollHeader(0, len)
    \/ \E payload \in Payloads(Bytes, stream) : PollBody(payload)
    \/ \E tr \in {None} \cup {Some(x) : x \in [Keys -> TrailerValues]} : PollEnd(tr)
    \/ \E res \in ServiceResultsOver(Messages, {None}) : ServiceReturn(res)
    \/ \E m \in Messages : EncodeMessage(m)
    \/ EncodeEnd

MetadataSpec == Init /\ [][NextMetadata]_vars

(* ----------------------- the client's decoder --------------------------- *)

\* Streaming::new_response: the decoder a client puts over a response body
Streaming_new_response(encoding) == Streaming_new_request(encoding, None)

\* every message of a complete body, in order; not ok when a frame fails to
\* decode or the bytes end inside a frame
RECURSIVE decode_all(_, _)
decode_all(st, bytes) ==
    IF bytes = <<>> THEN [ok |-> TRUE, messages |-> <<>>]
    ELSE IF Len(bytes) < HEADER_SIZE THEN [ok |-> FALSE, messages |-> <<>>]
    ELSE LET h == decode_header(st, SubSeq(bytes, 1, HEADER_SIZE)) IN
         IF ~h.ok \/ Len(bytes) < HEADER_SIZE + h.stream.len
         THEN [ok |-> FALSE, messages |-> <<>>]
         ELSE LET r == decode_body(h.stream,
                                   SubSeq(bytes, HEADER_SIZE + 1, HEADER_SIZE + h.stream.len))
              IN  IF ~r.ok THEN [ok |-> FALSE, messages |-> <<>>]
                  ELSE LET rest == decode_all(r.stream,
                                       SubSeq(bytes, HEADER_SIZE + h.stream.len + 1, Len(bytes)))
                       IN  [ok |-> rest.ok,
                            messages |-> <<Unwrap(r.message)>> \o rest.messages]

\* the compressed flags of the frames of a body, in order
RECURSIVE frame_flags(_)
frame_flags(bytes) ==
    IF Len(bytes) < HEADER_SIZE THEN <<>>
    ELSE LET h == parse_header(SubSeq(bytes, 1, HEADER_SIZE)) IN
         <<h.flag>> \o frame_flags(SubSeq(bytes, HEADER_SIZE + h.len + 1, Len(bytes)))

(* ------------------------------ claims --------------------------------- *)

UnaryLike == {"unary", "server_streaming"}

StreamLike == {"client_streaming", "streaming"}

Started == pc # "idle"

\* the request names an encoding other than identity that the server does
\* not accept
Unsupported ==
    /\ IsSome(req.grpc_encoding)
    /\ Unwrap(req.grpc_encoding) # "identity"
    /\ Unwrap(req.grpc_encoding) \notin accept_compression_encodings

Words(message) == {message[i] : i \in DOMAIN message}

\* C1: whatever header negotiation, request decoding and the service come
\* to, each of the four operations returns an HTTP 200 response, and a
\* Status failure is returned as a trailers-only response whose grpc-status
\* is the (non-OK) code of that Status.
C1_FailureIsTrailersOnly ==
    /\ pc \in {"body", "done"} => IsSome(response)
    /\ IsSome(response) => Unwrap(response).http_status = 200
    /\ IsSome(failure) =>
          /\ pc = "done"
          /\ IsSome(response)
          /\ Unwrap(response).trailers_only
          /\ Unwrap(response).grpc_status = Some(Unwrap(failure).code)
          /\ Unwrap(failure).code # Ok
          /\ Unwrap(response).grpc_message = Unwrap(failure).message
          /\ wire = <<>>

\* a service failure in a streaming operation, returned as trailers-only
C1_Witness ==
    /\ pc = "done"
    /\ pattern = "streaming"
    /\ IsSome(failure)
    /\ Unwrap(failure).code = NotFound
    /\ IsSome(response)
    /\ Unwrap(response).trailers_only

\* C2: a grpc-encoding naming a non-identity encoding outside the accepted
\* set fails the operation, in every pattern and whatever the send set, with
\* Unimplemented and a message listing exactly the accepted encodings; the
\* service is not called and nothing is read off the request body.
C2_UnsupportedEncoding ==
    (Started /\ Unsupported) =>
        /\ pc = "done"
        /\ IsSome(failure)
        /\ Unwrap(failure).code = Unimplemented
        /\ IsSome(response)
        /\ Unwrap(response).grpc_status = Some(Unimplemented)
        /\ Unwrap(response).grpc_message[1] = "accept-encoding"
        /\ "identity" \in Words(Unwrap(response).grpc_message)
        /\ \A e \in EncodingSet :
              e \in Words(Unwrap(response).grpc_message)
                 <=> e \in accept_compression_encodings
        /\ svc_calls = 0
        /\ polled.dispatcher = 0 /\ polled.service = 0
        /\ stream.frames = 0 /\ stream.buffered = 0

\* gzip is offered for responses but not accepted for requests
C2_Witness ==
    /\ pc = "done"
    /\ req.grpc_encoding = Some("gzip")
    /\ "gzip" \in send_compression_encodings
    /\ accept_compression_encodings = {"zstd"}
    /\ pattern = "client_streaming"
    /\ IsSome(response)
    /\ Unwrap(response).grpc_status = Some(Unimplemented)

\* C3: in unary and server_streaming, a request body that ends before any
\* frame fails the operation with Internal, "Missing request message.", and
\* the service is not called.
C3_MissingRequestMessage ==
    (pattern \in UnaryLike /\ stream.state = "Done" /\ polled.dispatcher = 0) =>
        /\ pc = "done"
        /\ failure = Some(Status(Internal, <<"Missing request message.">>))
        /\ IsSome(response)
        /\ Unwrap(response).grpc_status = Some(Internal)
        /\ Unwrap(response).grpc_message = <<"Missing request message.">>
        /\ svc_calls = 0

C3_Witness ==
    /\ pattern = "server_streaming"
    /\ stream.state = "Done"
    /\ polled.dispatcher = 0
    /\ pc = "done"
    /\ IsSome(response)

\* C4: in client_streaming and streaming the dispatcher never reads the
\* request body: once the request encoding is accepted the service is called
\* with a Streaming nothing was read from, also when the body is empty, and
\* every frame is pulled by the service.
C4_StreamHandedOver ==
    (Started /\ pattern \in StreamLike) =>
        /\ polled.dispatcher = 0
        /\ (svc_calls = 1) <=> ~Unsupported
        /\ svc_calls = 0 => (IsSome(failure) /\ Unwrap(failure).code = Unimplemented)
        /\ (pc = "service" /\ polled.service = 0 /\ stream.state # "Done") =>
              stream = Streaming_new_request(stream.encoding, max_decoding_message_size)

\* the service was called and found the request body empty
C4_Witness ==
    /\ pattern = "client_streaming"
    /\ pc = "service"
    /\ svc_calls = 1
    /\ stream.state = "Done"
    /\ polled = [dispatcher |-> 0, service |-> 0]

\* C5: a SingleMessageCompressionOverride::Disable extension on the service's
\* response keeps the response frame uncompressed exactly in unary and
\* client_streaming; in server_streaming and streaming the encoder gets the
\* default override whatever the extension, and a frame is compressed exactly
\* when a response encoding was negotiated.
C5_OverrideOnlyForSingleMessage ==
    (pc \in {"body", "done"} /\ IsSome(returned) /\ Unwrap(returned).ok) =>
        LET ext   == Unwrap(returned).extension
            flags == frame_flags(wire)
            compressed ==
                /\ IsSome(accept_encoding)
                /\ ~(pattern \in SingleResponse /\ ext = Some(Disable))
        IN  /\ encoder.compression_override =
                  IF pattern \in SingleResponse /\ IsSome(ext) THEN Unwrap(ext)
                  ELSE Inherit
            /\ \A i \in DOMAIN flags : flags[i] = IF compressed THEN 1 ELSE 0

\* gzip was negotiated and the unary response's frame went out uncompressed
C5_Witness ==
    /\ pattern = "unary"
    /\ pc = "done"
    /\ accept_encoding = Some("gzip")
    /\ IsSome(returned)
    /\ Unwrap(returned).extension = Some(Disable)
    /\ frame_flags(wire) = <<0>>

\* the first entry of the client's grpc-accept-encoding that the server
\* offers, if any
NegotiatedEncoding ==
    LET h == req.grpc_accept_encoding IN
    IF ~IsSome(h) THEN None
    ELSE LET hits == {i \in DOMAIN Unwrap(h) : Unwrap(h)[i] \in send_compression_encodings}
         IN  IF hits = {} THEN None
             ELSE Some(Unwrap(h)[CHOOSE i \in hits : \A j \in hits : i <= j])

\* C6 as claimed: every response carries content-type application/grpc, and
\* carries grpc-encoding naming the negotiated encoding exactly when one was
\* negotiated.
C6_EveryResponseNamesEncoding ==
    IsSome(response) =>
        /\ Unwrap(response).content_type = "application/grpc"
        /\ Unwrap(response).grpc_encoding = NegotiatedEncoding

\* C6, amended: every response carries content-type application/grpc; a
\* response with a body carries grpc-encoding naming the negotiated encoding
\* exactly when one was negotiated, and a trailers-only response carries no
\* grpc-encoding.
C6_BodyResponseNamesEncoding ==
    IsSome(response) =>
        /\ Unwrap(response).content_type = "application/grpc"
        /\ Unwrap(response).grpc_encoding =
              IF Unwrap(response).trailers_only THEN None ELSE NegotiatedEncoding

\* the client listed gzip first, the server offers zstd only
C6_Witness ==
    /\ IsSome(response)
    /\ ~Unwrap(response).trailers_only
    /\ req.grpc_accept_encoding = Some(<<"gzip", "zstd">>)
    /\ send_compression_encodings = {"zstd"}
    /\ Unwrap(response).grpc_encoding = Some("zstd")

\* the last header the decoder read declares more than the configured limit
Oversized ==
    /\ stream.state # "Dropped"
    /\ IsSome(max_decoding_message_size)
    /\ stream.len > Unwrap(max_decoding_message_size)

\* that header's compressed flag is one the decoder admits
FlagAdmitted == stream.flag = 0 \/ IsSome(stream.encoding)

DecodingRefused(code) ==
    /\ stream.state = "Error"
    /\ stream.status.code = code
    /\ stream.buffered = 0
    /\ pattern \in UnaryLike =>
          /\ svc_calls = 0
          /\ pc = "done"
          /\ IsSome(response)
          /\ Unwrap(response).grpc_status = Some(code)

\* C7 as claimed: a request frame declaring more than
\* max_decoding_message_size fails decoding with ResourceExhausted before its
\* body is buffered, and in unary and server_streaming the service is not
\* called and the response carries that status.
C7_OversizedIsResourceExhausted ==
    Oversized => DecodingRefused(ResourceExhausted)

\* C7, amended: such a frame fails decoding before its body is buffered, with
\* ResourceExhausted, or with Internal when it also sets the compressed flag
\* though no request encoding was negotiated; in unary and server_streaming
\* the service is not called and the response carries that status.
C7_OversizedIsRefused ==
    Oversized =>
        DecodingRefused(IF FlagAdmitted THEN ResourceExhausted ELSE Internal)

\* the second frame of a unary request is too long
C7_Witness ==
    /\ pattern = "unary"
    /\ Oversized
    /\ FlagAdmitted
    /\ polled.dispatcher = 2
    /\ pc = "done"
    /\ IsSome(response)
    /\ Unwrap(response).grpc_status = Some(ResourceExhausted)

\* C8: a response message whose encoding is longer than
\* max_encoding_message_size ends the response body with ResourceExhausted;
\* the body holds the complete frames of the messages before it and not a
\* byte of that message.
C8_OversizedResponse ==
    (/\ sent # <<>>
     /\ IsSome(max_encoding_message_size)
     /\ Len(codec_encode(sent[Len(sent)])) > Unwrap(max_encoding_message_size)) =>
        /\ pc = "done"
        /\ IsSome(resp_trailers)
        /\ Unwrap(resp_trailers).code = ResourceExhausted
        /\ LET d == decode_all(Streaming_new_response(Unwrap(response).grpc_encoding), wire)
           IN  d.ok /\ d.messages = SubSeq(sent, 1, Len(sent) - 1)

\* a stream's second message is too long, its first went out
C8_Witness ==
    /\ pattern = "server_streaming"
    /\ Len(sent) = 2
    /\ Len(codec_encode(sent[1])) = 1
    /\ Len(codec_encode(sent[2])) = 2
    /\ max_encoding_message_size = Some(1)
    /\ wire # <<>>
    /\ IsSome(resp_trailers)
    /\ Unwrap(resp_trailers).code = ResourceExhausted

\* every message the source yielded is within the encoding limit
WithinLimit ==
    \A i \in DOMAIN sent :
        Len(codec_encode(sent[i])) <= limit_of(max_encoding_message_size)

\* C9: with identity compression and every message within the limit, the
\* client's decoder reads off the response body exactly the messages the
\* source yielded, in their order, and once the status trailer is out no
\* frame follows it.
C9_FramingRoundTrip ==
    /\ []((/\ pc \in {"body", "done"}
           /\ IsSome(returned) /\ Unwrap(returned).ok
           /\ accept_encoding = None
           /\ WithinLimit) =>
             decode_all(Streaming_new_response(Unwrap(response).grpc_encoding), wire)
                = [ok |-> TRUE, messages |-> sent])
    /\ [][IsSome(resp_trailers) =>
             (wire' = wire /\ sent' = sent /\ resp_trailers' = resp_trailers)]_vars

\* two different messages went out, then the status
C9_Witness ==
    /\ pattern = "streaming"
    /\ accept_encoding = None
    /\ pc = "done"
    /\ Len(sent) = 2
    /\ sent[1].data = <<0, 7>>
    /\ sent[2].data = <<7>>
    /\ WithinLimit
    /\ resp_trailers = Some(Status(Ok, <<>>))

\* C10: the metadata of the request a unary or server_streaming service is
\* called with is the union of the request headers and the request trailers:
\* a key is there exactly when either has it, a key of the trailers carries
\* the trailers' values (its first value is the trailers' first), and a key
\* of the headers alone keeps its values.
C10_MetadataUnion ==
    (pattern \in UnaryLike /\ pc = "service" /\ IsSome(request)) =>
        LET md == Unwrap(request).metadata
            h  == req.metadata
            tr == IF IsSome(req_trailers) THEN Unwrap(req_trailers) ELSE EmptyMetadata
        IN  \A k \in Keys :
              /\ md[k] # <<>> <=> (h[k] # <<>> \/ tr[k] # <<>>)
              /\ tr[k] # <<>> =>
                    /\ get(md, k) = get(tr, k)
                    /\ \A i \in DOMAIN tr[k] : \E j \in DOMAIN md[k] : md[k][j] = tr[k][i]
              /\ tr[k] = <<>> => md[k] = h[k]

\* key a is in the headers and the trailers, key b in the trailers only
C10_Witness ==
    /\ pattern = "unary"
    /\ pc = "service"
    /\ IsSome(request)
    /\ req.metadata = [a |-> <<"h1", "h2">>, b |-> <<>>]
    /\ req_trailers = Some([a |-> <<"t1">>, b |-> <<"t1", "t2">>])
    /\ get(Unwrap(request).metadata, "a") = Some("t1")
    /\ get(Unwrap(request).metadata, "b") = Some("t1")

(* ====================================================================== *)
(* The client channel: transport/channel/mod.rs                            *)
(* ====================================================================== *)

\* the Channel values (original and clones) the model follows
MaxHandles == 2

\* the requests given to Channel::call
MaxReqs == 2

\* the endpoints of a list given to balance_list
MaxList == 2

\* the changes sent through the tx of balance_channel
MaxChanges == 2

DEFAULT_BUFFER_SIZE == 1024

(* ------------------------------ Endpoint ------------------------------- *)

Uris == {"u1", "u2"}

Endpoint(uri, buffer_size) == [uri |-> uri, buffer_size |-> buffer_size]

\* Change::Insert(key, endpoint) and Change::Remove(key)
Insert(key, endpoint) == [change |-> "Insert", key |-> key, endpoint |-> Some(endpoint)]

Remove(key) == [change |-> "Remove", key |-> key, endpoint |-> None]

(* ------------------- tower::buffer::Buffer, the handle ----------------- *)

\* Buffer::pair(svc, bound): the bounded queue to a worker that owns svc
Buffer_pair(svc, bound) ==
    [svc |-> svc, capacity |-> bound, queue |-> <<>>, worker |-> "created",
     passed |-> <<>>]

\* a handle to the pipeline: its place, and the readiness credit it holds
Buffer_handle(pipe) == [pipe |-> pipe, permit |-> FALSE]

\* the credits handles hold on pipeline i, ready and not yet used by a call
Held(hs, i) == Cardinality({h \in 1..Len(hs) : hs[h].pipe = i /\ hs[h].permit})

\* the credits of pipeline i that are free: not queued, not held
Credits(ps, hs, i) == ps[i].capacity - Len(ps[i].queue) - Held(hs, i)

Ready(result) == [ready |-> TRUE, result |-> result]

Pending == [ready |-> FALSE, result |-> None]

ResultOk == [ok |-> TRUE, error |-> <<>>]

ResultErr(e) == [ok |-> FALSE, error |-> e]

\* Buffer::poll_ready: an error once the worker is gone; else ready when the
\* handle holds a credit or takes a free one; else pending
Buffer_poll_ready(self, p, credits) ==
    IF p.worker = "terminated" THEN Ready(Some(ResultErr(<<"closed">>)))
    ELSE IF self.permit \/ credits > 0 THEN Ready(Some(ResultOk))
    ELSE Pending

\* Buffer::call: the credit is spent and the request joins the queue's tail;
\* with the worker gone the request is refused
Buffer_call(self, p, id) ==
    [channel  |-> [self EXCEPT !.permit = FALSE],
     pipe     |-> IF p.worker = "terminated" THEN p
                  ELSE [p EXCEPT !.queue = Append(@, id)],
     accepted |-> p.worker # "terminated"]

\* Buffer::clone: a handle to the same queue, holding no credit
Buffer_clone(self) == Buffer_handle(self.pipe)

(* ------------------------- the constructors ---------------------------- *)

\* super::Error::from_source
from_source(e) == <<"transport">> \o e

\* endpoint.buffer_size.unwrap_or(DEFAULT_BUFFER_SIZE)
buffer_size_of(endpoint) ==
    IF IsSome(endpoint.buffer_size) THEN Unwrap(endpoint.buffer_size)
    ELSE DEFAULT_BUFFER_SIZE

\* executor.execute(worker)
execute(p) == [p EXCEPT !.worker = "running"]

\* Connection::lazy(connector, endpoint): nothing is connected yet
Connection_lazy(endpoint) == [kind |-> "connection", conn |-> "idle"]

\* what Connection::connect(connector, endpoint) resolves to when it succeeds
Connection_connected(endpoint) == [kind |-> "connection", conn |-> "connected"]

\* Balance::new(discover), boxed
Balance_new == [kind |-> "balance", conn |-> "none"]

Built(op, result, arg) == [op |-> op, result |-> result, arg |-> arg]

\* a Channel does not exist yet, and no constructor has failed
Unbuilt == built.op = "none"

\* Channel { svc } over the pipeline made last
Channel_of(ps) == Buffer_handle(Len(ps))

\* Channel::new with the connector invoked during construction
Channel_new_connecting(endpoint) ==
    /\ Unbuilt
    /\ built' = Built("new", "channel", endpoint)
    /\ pipes' = <<execute(Buffer_pair(Connection_connected(endpoint),
                                      buffer_size_of(endpoint)))>>
    /\ handles' = <<Channel_of(pipes')>>
    /\ connector_calls' = connector_calls + 1
    /\ UNCHANGED << grpc, call, reqs, last_poll, discovery, endpoints, last_route >>

\* Channel::new(connector, endpoint)
Channel_new(endpoint) ==
    /\ Unbuilt
    /\ built' = Built("new", "channel", endpoint)
    /\ pipes' = <<execute(Buffer_pair(Connection_lazy(endpoint),
                                      buffer_size_of(endpoint)))>>
    /\ handles' = <<Channel_of(pipes')>>
    /\ UNCHANGED << grpc, call, reqs, last_poll, connector_calls, discovery,
                    endpoints, last_route >>

\* Channel::connect(connector, endpoint); connected says whether the
\* connector's handshake succeeds
Channel_connect(endpoint, connected) ==
    /\ Unbuilt
    /\ connector_calls' = connector_calls + 1
    /\ IF connected
       THEN /\ built' = Built("connect", "channel", endpoint)
            /\ pipes' = <<execute(Buffer_pair(Connection_connected(endpoint),
                                              buffer_size_of(endpoint)))>>
            /\ handles' = <<Channel_of(pipes')>>
       ELSE /\ built' = Built("connect", "error", endpoint)
            /\ UNCHANGED << pipes, handles >>
    /\ UNCHANGED << grpc, call, reqs, last_poll, discovery, endpoints, last_route >>

(* ---------------------- the discovery change queue --------------------- *)

\* tokio::sync::mpsc::channel(capacity): pushed is every change ever sent
channel(capacity) == [capacity |-> capacity, queue |-> <<>>, pushed |-> <<>>]

\* tx.try_send(change): refused when the queue is full
try_send(ch, change) ==
    IF Len(ch.queue) < ch.capacity
    THEN [ok |-> TRUE,
          channel |-> [ch EXCEPT !.queue = Append(@, change),
                                 !.pushed = Append(@, change)]]
    ELSE [ok |-> FALSE, channel |-> ch]

\* list.for_each(|endpoint| tx.try_send(Change::Insert(..)).unwrap()): the
\* endpoints the queue has room for are pushed, in order; not ok when there
\* is one more, whose try_send is refused and whose unwrap() panics
for_each_try_send(ch, list) ==
    LET room    == ch.capacity - Len(ch.queue)
        n       == IF Len(list) <= room THEN Len(list) ELSE room
        inserts == [i \in 1..n |-> Insert(list[i].uri, list[i])]
    IN  [ok |-> Len(list) <= room,
         channel |-> [ch EXCEPT !.queue = @ \o inserts, !.pushed = @ \o inserts]]

\* Channel::balance(discover, buffer_size, executor): the pipeline
Channel_balance(buffer_size) == execute(Buffer_pair(Balance_new, buffer_size))

\* balance_channel_with_executor with capacity given to the request buffer too
balance_channel_with_executor_sized(capacity) ==
    /\ Unbuilt
    /\ built' = Built("balance_channel", "channel", capacity)
    /\ discovery' = channel(capacity)
    /\ pipes' = <<Channel_balance(capacity)>>
    /\ handles' = <<Channel_of(pipes')>>
    /\ UNCHANGED << grpc, call, reqs, last_poll, connector_calls, endpoints,
                    last_route >>

\* Channel::balance_channel_with_executor(capacity, executor)
balance_channel_with_executor(capacity) ==
    /\ Unbuilt
    /\ built' = Built("balance_channel", "channel", capacity)
    /\ discovery' = channel(capacity)
    /\ pipes' = <<Channel_balance(DEFAULT_BUFFER_SIZE)>>
    /\ handles' = <<Channel_of(pipes')>>
    /\ UNCHANGED << grpc, call, reqs, last_poll, connector_calls, endpoints,
                    last_route >>

\* Channel::balance_channel(capacity)
balance_channel(capacity) == balance_channel_with_executor(capacity)

\* Channel::balance_list(list)
balance_list(list) ==
    LET pushed == for_each_try_send(channel(DEFAULT_BUFFER_SIZE), list) IN
    /\ Unbuilt
    /\ built' = Built("balance_list", IF pushed.ok THEN "channel" ELSE "panic", list)
    /\ discovery' = pushed.channel
    /\ pipes' = <<Channel_balance(DEFAULT_BUFFER_SIZE)>>
    /\ handles' = IF pushed.ok THEN <<Channel_of(pipes')>> ELSE <<>>
    /\ UNCHANGED << grpc, call, reqs, last_poll, connector_calls, endpoints,
                    last_route >>

\* the caller of balance_channel sends a change through the tx it was given
tx_send(change) ==
    LET tried == try_send(discovery, change) IN
    /\ built = Built("balance_channel", "channel", discovery.capacity)
    /\ Len(discovery.pushed) < MaxChanges
    /\ tried.ok
    /\ discovery' = tried.channel
    /\ UNCHANGED << grpc, call, built, pipes, handles, reqs, last_poll,
                    connector_calls, endpoints, last_route >>

(* --------------------- the channel as a Service ------------------------ *)

HasChannel == built.result = "channel"

\* the Channel values in existence
Handles == 1..Len(handles)

\* Channel::poll_ready with the buffer's error taken for not ready yet
Channel_poll_ready_pending(polled_svc) ==
    IF polled_svc.ready /\ ~Unwrap(polled_svc.result).ok THEN Pending ELSE polled_svc

\* Channel::poll_ready with the buffer's error dropped
Channel_poll_ready_ok(polled_svc) ==
    IF polled_svc.ready /\ ~Unwrap(polled_svc.result).ok THEN Ready(Some(ResultOk))
    ELSE polled_svc

\* Channel::poll_ready: Service::poll_ready(&mut self.svc, cx).map_err(..)
Channel_poll_ready(polled_svc) ==
    IF polled_svc.ready /\ ~Unwrap(polled_svc.result).ok
    THEN Ready(Some(ResultErr(from_source(Unwrap(polled_svc.result).error))))
    ELSE polled_svc

IsReadyOk(r) == r.ready /\ Unwrap(r.result).ok

poll_ready(h) ==
    LET self == handles[h]
        r    == Channel_poll_ready(
                    Buffer_poll_ready(self, pipes[self.pipe],
                                      Credits(pipes, handles, self.pipe)))
    IN  /\ HasChannel
        /\ h \in Handles
        /\ handles' = [handles EXCEPT ![h].permit = IsReadyOk(r)]
        /\ last_poll' = Some([handle |-> h, polled |-> r,
                              free |-> Credits(pipes, handles, self.pipe),
                              queued |-> Len(pipes[self.pipe].queue),
                              held |-> self.permit,
                              worker |-> pipes[self.pipe].worker])
        /\ UNCHANGED << grpc, call, built, pipes, reqs, connector_calls, discovery,
                        endpoints, last_route >>

\* the request a call makes, and the ResponseFuture it returns
NewRequest(h, accepted) ==
    [handle |-> h, pipe |-> handles[h].pipe,
     state |-> IF accepted THEN "queued" ELSE "failed",
     result |-> IF accepted THEN None ELSE Some(ResultErr(<<"closed">>)),
     endpoint |-> None, future |-> None]

\* Channel::call that leaves the handle its readiness credit
Channel_call_keeps_credit(self, p, id) ==
    [Buffer_call(self, p, id) EXCEPT !.channel = self]

\* Channel::call that puts the request at the head of the queue
Channel_call_first(self, p, id) ==
    [Buffer_call(self, p, id) EXCEPT
        !.pipe = IF p.worker = "terminated" THEN p
                 ELSE [p EXCEPT !.queue = <<id>> \o @]]

\* Channel::call: Service::call(&mut self.svc, request)
Channel_call(self, p, id) == Buffer_call(self, p, id)

\* a caller that saw its handle ready calls it
Call(h) ==
    LET self == handles[h]
        id   == Len(reqs) + 1
        r    == Channel_call(self, pipes[self.pipe], id)
    IN  /\ HasChannel
        /\ h \in Handles
        /\ self.permit
        /\ Len(reqs) < MaxReqs
        /\ handles' = [handles EXCEPT ![h] = r.channel]
        /\ pipes' = [pipes EXCEPT ![self.pipe] = r.pipe]
        /\ reqs' = Append(reqs, NewRequest(h, r.accepted))
        /\ UNCHANGED << grpc, call, built, last_poll, connector_calls, discovery,
                        endpoints, last_route >>

\* a clone with a queue and a worker of its own
Channel_clone_pipeline(self, ps) ==
    [channel |-> Buffer_handle(Len(ps) + 1),
     pipes   |-> Append(ps, execute(Buffer_pair(ps[self.pipe].svc,
                                                ps[self.pipe].capacity)))]

\* #[derive(Clone)] on Channel { svc: Buffer }
Channel_clone(self, ps) == [channel |-> Buffer_clone(self), pipes |-> ps]

Clone(h) ==
    LET r == Channel_clone(handles[h], pipes) IN
    /\ HasChannel
    /\ h \in Handles
    /\ Len(handles) < MaxHandles
    /\ handles' = Append(handles, r.channel)
    /\ pipes' = r.pipes
    /\ UNCHANGED << grpc, call, built, reqs, last_poll, connector_calls, discovery,
                    endpoints, last_route >>

(* --------------------------- the worker -------------------------------- *)

Pipes == 1..Len(pipes)

\* the worker hands the head of its queue to the inner service
Worker_pass(p) == [p EXCEPT !.queue = Tail(@), !.passed = Append(@, Head(p.queue))]

\* the worker is gone: what is still queued on pipeline i fails
Worker_close(rs, i) ==
    [n \in 1..Len(rs) |->
        IF rs[n].pipe = i /\ rs[n].state = "queued"
        THEN [rs[n] EXCEPT !.state = "failed",
                           !.result = Some(ResultErr(<<"closed">>))]
        ELSE rs[n]]

\* the worker over a Connection, a request waiting: the connection is ready
\* (connecting first when it is lazy and idle) and gets the request, or its
\* readiness fails and the worker ends
Worker_connection(i, ok) ==
    LET p == pipes[i] IN
    /\ HasChannel
    /\ i \in Pipes
    /\ p.worker = "running"
    /\ p.svc.kind = "connection"
    /\ p.queue # <<>>
    /\ connector_calls' = connector_calls + (IF p.svc.conn = "idle" THEN 1 ELSE 0)
    /\ IF ok
       THEN /\ pipes' = [pipes EXCEPT
                            ![i] = [Worker_pass(p) EXCEPT !.svc.conn = "connected"]]
            /\ reqs' = [reqs EXCEPT ![Head(p.queue)].state = "passed"]
       ELSE /\ pipes' = [pipes EXCEPT
                            ![i] = [p EXCEPT !.worker = "terminated",
                                             !.svc.conn = "failed",
                                             !.queue = <<>>]]
            /\ reqs' = Worker_close(reqs, i)
    /\ UNCHANGED << grpc, call, built, handles, last_poll, discovery, endpoints,
                    last_route >>

(* --------------------------- the balancer ------------------------------ *)

\* the place of the next change of the queue among all changes sent
Generation(ch) == Len(ch.pushed) - Len(ch.queue) + 1

\* Change::Insert(key, _): the entry of key is added or replaced
Balance_insert(eps, key, gen) ==
    [k \in DOMAIN eps \cup {key} |->
        IF k = key THEN [state |-> "connecting", load |-> 0, gen |-> gen]
        ELSE eps[k]]

\* Change::Remove(key)
Balance_remove(eps, key) == [k \in DOMAIN eps \ {key} |-> eps[k]]

\* the balancer takes the next change off the discovery stream
poll_discover ==
    LET c == Head(discovery.queue) IN
    /\ HasChannel
    /\ \E i \in Pipes : pipes[i].svc.kind = "balance" /\ pipes[i].worker = "running"
    /\ discovery.queue # <<>>
    /\ discovery' = [discovery EXCEPT !.queue = Tail(@)]
    /\ endpoints' = IF c.change = "Insert"
                    THEN Balance_insert(endpoints, c.key, Generation(discovery))
                    ELSE Balance_remove(endpoints, c.key)
    /\ UNCHANGED << grpc, call, built, pipes, handles, reqs, last_poll,
                    connector_calls, last_route >>

\* the connection of an endpoint of the set is established, or fails
endpoint_connect(key, ok) ==
    /\ HasChannel
    /\ key \in DOMAIN endpoints
    /\ endpoints[key].state = "connecting"
    /\ endpoints' = [endpoints EXCEPT ![key].state = IF ok THEN "ready" ELSE "failed"]
    /\ connector_calls' = connector_calls + 1
    /\ UNCHANGED << grpc, call, built, pipes, handles, reqs, last_poll, discovery,
                    last_route >>

\* the connection of a ready endpoint is lost
endpoint_fail(key) ==
    /\ HasChannel
    /\ key \in DOMAIN endpoints
    /\ endpoints[key].state = "ready"
    /\ endpoints' = [endpoints EXCEPT ![key].state = "failed"]
    /\ UNCHANGED << grpc, call, built, pipes, handles, reqs, last_poll,
                    connector_calls, discovery, last_route >>

ReadySet(eps) == {k \in DOMAIN eps : eps[k].state = "ready"}

\* of the two sampled, the one with the higher load
p2c_higher_load(eps, a, b) == IF eps[a].load >= eps[b].load THEN a ELSE b

\* power of two choices: of the two sampled, the one with the lower load
p2c(eps, a, b) == IF eps[a].load <= eps[b].load THEN a ELSE b

\* the worker over a balancer, a request waiting: the balancer is ready when
\* an endpoint is, samples a and b among the ready ones and gets the request
Worker_balance(i, a, b) ==
    LET p      == pipes[i]
        id     == Head(p.queue)
        chosen == p2c(endpoints, a, b)
    IN  /\ HasChannel
        /\ i \in Pipes
        /\ p.worker = "running"
        /\ p.svc.kind = "balance"
        /\ p.queue # <<>>
        /\ a \in ReadySet(endpoints)
        /\ b \in ReadySet(endpoints)
        /\ (a = b) <=> (Cardinality(ReadySet(endpoints)) = 1)
        /\ pipes' = [pipes EXCEPT ![i] = Worker_pass(p)]
        /\ reqs' = [reqs EXCEPT
                       ![id].state = "passed",
                       ![id].endpoint = Some([key |-> chosen,
                                              gen |-> endpoints[chosen].gen])]
        /\ endpoints' = [endpoints EXCEPT ![chosen].load = @ + 1]
        /\ last_route' = Some([request |-> id, chosen |-> chosen, sampled |-> {a, b},
                               set |-> endpoints])
        /\ UNCHANGED << grpc, call, built, handles, last_poll, connector_calls,
                        discovery >>

(* ------------------------- the responses ------------------------------- *)

\* the entry the request was routed to, when the set still holds it
RoutedEntry(rq) ==
    IF IsSome(rq.endpoint)
       /\ Unwrap(rq.endpoint).key \in DOMAIN endpoints
       /\ endpoints[Unwrap(rq.endpoint).key].gen = Unwrap(rq.endpoint).gen
    THEN {Unwrap(rq.endpoint).key}
    ELSE {}

\* the inner service finishes the call of a request it was passed
inner_respond(id, ok) ==
    /\ HasChannel
    /\ id \in 1..Len(reqs)
    /\ reqs[id].state = "passed"
    /\ reqs' = [reqs EXCEPT
                   ![id].state = "done",
                   ![id].result = Some(IF ok THEN ResultOk ELSE ResultErr(<<"inner">>))]
    /\ endpoints' = [k \in DOMAIN endpoints |->
                        IF k \in RoutedEntry(reqs[id])
                        THEN [endpoints[k] EXCEPT !.load = @ - 1]
                        ELSE endpoints[k]]
    /\ UNCHANGED << grpc, call, built, pipes, handles, last_poll, connector_calls,
                    discovery, last_route >>

\* ResponseFuture::poll with the inner future's error dropped
ResponseFuture_poll_ok(inner) == ResultOk

\* ResponseFuture::poll: Pin::new(&mut self.inner).poll(cx).map_err(..)
ResponseFuture_poll(inner) ==
    IF inner.ok THEN inner ELSE ResultErr(from_source(inner.error))

\* the caller polls the future of a request whose result is there
poll_response(id) ==
    /\ HasChannel
    /\ id \in 1..Len(reqs)
    /\ IsSome(reqs[id].result)
    /\ reqs[id].future = None
    /\ reqs' = [reqs EXCEPT ![id].future = Some(ResponseFuture_poll(Unwrap(reqs[id].result)))]
    /\ UNCHANGED << grpc, call, built, pipes, handles, last_poll, connector_calls,
                    discovery, endpoints, last_route >>

(* ------------------------ the channel's steps -------------------------- *)

\* the endpoints a single-connection channel is made for
Endpoints == {Endpoint("u1", None), Endpoint("u1", Some(1))}

\* the lists given to balance_list: the short ones, and one longer than the
\* change queue
BalanceEndpoints == {Endpoint(u, None) : u \in Uris}

LongList == [i \in 1..(DEFAULT_BUFFER_SIZE + 1) |-> Endpoint("u1", None)]

Lists == SeqsUpTo(BalanceEndpoints, MaxList) \cup {LongList}

Changes == {Insert(u, Endpoint(u, None)) : u \in Uris} \cup {Remove(u) : u \in Uris}

Capacities == {1, 2}

\* a channel over one connection: Channel::new and Channel::connect
NextChannel ==
    \/ \E e \in Endpoints : Channel_new(e)
    \/ \E e \in Endpoints, ok \in BOOLEAN : Channel_connect(e, ok)
    \/ \E h \in Handles : poll_ready(h)
    \/ \E h \in Handles : Call(h)
    \/ \E h \in Handles : Clone(h)
    \/ \E i \in Pipes, ok \in BOOLEAN : Worker_connection(i, ok)
    \/ \E id \in 1..MaxReqs, ok \in BOOLEAN : inner_respond(id, ok)
    \/ \E id \in 1..MaxReqs : poll_response(id)

ChannelSpec == Init /\ [][NextChannel]_vars

\* a channel over a balancer: balance_list and balance_channel
NextBalance ==
    \/ \E c \in Capacities : balance_channel(c)
    \/ \E c \in Capacities : balance_channel_with_executor(c)
    \/ \E l \in Lists : balance_list(l)
    \/ \E c \in Changes : tx_send(c)
    \/ \E h \in Handles : poll_ready(h)
    \/ \E h \in Handles : Call(h)
    \/ \E i \in Pipes, a \in Uris, b \in Uris : Worker_balance(i, a, b)
    \/ poll_discover
    \/ \E k \in Uris, ok \in BOOLEAN : endpoint_connect(k, ok)
    \/ \E k \in Uris : endpoint_fail(k)
    \/ \E id \in 1..MaxReqs : inner_respond(id, TRUE)

BalanceSpec == Init /\ [][NextBalance]_vars

(* ====================================================================== *)
(* Claims C11 - C20                                                        *)
(* ====================================================================== *)

\* the pipeline of the handle the latest poll_ready was made on
PolledPipe == pipes[handles[Unwrap(last_poll).handle].pipe]

\* C11: Channel::poll_ready returns Ready(Err) when the worker has
\* terminated; with the worker alive it returns Ready(Ok) when the buffer has
\* capacity for the handle (a readiness credit the handle already holds, or a
\* free one) and Pending when it has none; it never returns Ready(Ok) while
\* the queue is full, and never Pending once the worker has terminated.
C11_PollReady ==
    IsSome(last_poll) =>
        LET lp  == Unwrap(last_poll)
            has == lp.held \/ lp.free > 0
        IN  /\ lp.worker = "terminated" =>
                   lp.polled.ready /\ ~Unwrap(lp.polled.result).ok
            /\ lp.worker # "terminated" /\ has => IsReadyOk(lp.polled)
            /\ lp.worker # "terminated" /\ ~has => lp.polled = Pending
            /\ IsReadyOk(lp.polled) => lp.queued < PolledPipe.capacity
            /\ ~lp.polled.ready => lp.worker = "running"

\* a poll_ready that found the queue full and the worker alive
C11_Witness ==
    /\ IsSome(last_poll)
    /\ Unwrap(last_poll).polled = Pending
    /\ Unwrap(last_poll).queued = PolledPipe.capacity
    /\ PolledPipe.worker = "running"

\* C12: a readiness credit is spent by the one call made with it, and the
\* requests queued and not yet taken by the worker, together with the credits
\* handed out and not yet used, never exceed the buffer's capacity, whatever
\* the interleaving of poll_ready and call over the clones.
C12_OneCreditOneCall ==
    /\ [](\A i \in Pipes :
            /\ Len(pipes[i].queue) <= pipes[i].capacity
            /\ Len(pipes[i].queue) + Held(handles, i) <= pipes[i].capacity)
    /\ [][Len(reqs') > Len(reqs) =>
            /\ handles[reqs'[Len(reqs')].handle].permit
            /\ ~handles'[reqs'[Len(reqs')].handle].permit]_vars

\* two clones, the queue full of the requests of one and the other refused
C12_Witness ==
    /\ Len(handles) = 2
    /\ Len(reqs) = 1
    /\ pipes[1].queue = <<1>>
    /\ pipes[1].capacity = 1
    /\ IsSome(last_poll)
    /\ Unwrap(last_poll).handle # reqs[1].handle
    /\ Unwrap(last_poll).polled = Pending

\* C13: cloning makes no second queue or worker: every handle is a handle
\* to the one pipeline, every request, through whichever clone, is in that
\* pipeline's queue or was passed on by its worker, and the credits and
\* queued requests of all clones count against the one capacity.
C13_ClonesShareThePipeline ==
    HasChannel =>
        /\ Len(pipes) = 1
        /\ \A h \in Handles : handles[h].pipe = 1
        /\ \A n \in 1..Len(reqs) :
              /\ reqs[n].pipe = 1
              /\ reqs[n].state = "queued" =>
                    \E j \in 1..Len(pipes[1].queue) : pipes[1].queue[j] = n
              /\ reqs[n].state \in {"passed", "done"} =>
                    \E j \in 1..Len(pipes[1].passed) : pipes[1].passed[j] = n
        /\ Len(pipes[1].queue) + Held(handles, 1) <= pipes[1].capacity
        /\ IsSome(last_poll) /\ IsReadyOk(Unwrap(last_poll).polled)
              /\ ~Unwrap(last_poll).held => Unwrap(last_poll).free > 0

\* the clone is refused because the original holds the only credit
C13_Witness ==
    /\ Len(handles) = 2
    /\ handles[1].permit
    /\ pipes[1].capacity = 1
    /\ pipes[1].queue = <<>>
    /\ IsSome(last_poll)
    /\ Unwrap(last_poll).handle = 2
    /\ Unwrap(last_poll).polled = Pending

\* the place of x in the sequence s, 0 when it is not there
Place(s, x) == IF \E j \in 1..Len(s) : s[j] = x
               THEN CHOOSE j \in 1..Len(s) : s[j] = x
               ELSE 0

\* a was given to call before b, on the same handle
Before(a, b) == a < b /\ reqs[a].handle = reqs[b].handle

\* C14: of two calls on one handle the earlier is enqueued first and is
\* passed to the inner service first.
C14_SubmissionOrder ==
    \A a \in 1..Len(reqs), b \in 1..Len(reqs) :
        Before(a, b) =>
            LET p == pipes[reqs[a].pipe] IN
            /\ Place(p.queue, a) > 0 /\ Place(p.queue, b) > 0 =>
                  Place(p.queue, a) < Place(p.queue, b)
            /\ Place(p.queue, a) > 0 => Place(p.passed, b) = 0
            /\ Place(p.passed, a) > 0 /\ Place(p.passed, b) > 0 =>
                  Place(p.passed, a) < Place(p.passed, b)
            /\ Place(p.passed, b) > 0 /\ reqs[a].state # "failed" =>
                  Place(p.passed, a) > 0

\* the later call's future has resolved and the earlier one's has not
C14_Witness ==
    /\ Len(reqs) = 2
    /\ Before(1, 2)
    /\ pipes[1].passed = <<1, 2>>
    /\ reqs[1].state = "passed"
    /\ reqs[1].future = None
    /\ IsSome(reqs[2].future)

\* the Insert changes of a list of endpoints, one each, in the list's order
InsertsOf(list) == [i \in 1..Len(list) |-> Insert(list[i].uri, list[i])]

\* C15: for any list, balance_list returns a channel, having pushed one
\* Insert per listed endpoint into the discovery change queue, in list order,
\* keyed by the endpoint's URI.
C15_BalanceListPushesAll ==
    built.op = "balance_list" =>
        /\ built.result = "channel"
        /\ discovery.pushed = InsertsOf(built.arg)

\* what the balancer's latest selection chose, among what
RouteIsP2C(lr) ==
    LET ready == ReadySet(lr.set) IN
    /\ lr.chosen \in DOMAIN lr.set
    /\ lr.chosen \in ready
    /\ lr.sampled \subseteq ready
    /\ lr.chosen \in lr.sampled
    /\ Cardinality(ready) >= 2 =>
          /\ Cardinality(lr.sampled) = 2
          /\ \A s \in lr.sampled : lr.set[lr.chosen].load <= lr.set[s].load
    /\ Cardinality(ready) = 1 => ready = {lr.chosen}

\* the entries of the set that a step added, replaced or deleted
SetChanged ==
    \/ DOMAIN endpoints' # DOMAIN endpoints
    \/ \E k \in DOMAIN endpoints : endpoints'[k].gen # endpoints[k].gen

\* the step took the head of the discovery queue and applied it to the set
ChangeApplied ==
    /\ discovery.queue # <<>>
    /\ discovery'.queue = Tail(discovery.queue)
    /\ LET c == Head(discovery.queue) IN
       IF c.change = "Insert"
       THEN /\ DOMAIN endpoints' = DOMAIN endpoints \cup {c.key}
            /\ endpoints'[c.key].state = "connecting"
            /\ \A k \in DOMAIN endpoints \ {c.key} : endpoints'[k].gen = endpoints[k].gen
       ELSE /\ DOMAIN endpoints' = DOMAIN endpoints \ {c.key}
            /\ \A k \in DOMAIN endpoints' : endpoints'[k].gen = endpoints[k].gen

\* C16: the endpoint set changes only by a discovery event being applied
\* (Insert adds or replaces the key's entry, Remove deletes it); a request
\* is routed only to an endpoint that is in the set and ready: the less
\* loaded of two sampled ready ones, or the only ready one; and while no
\* endpoint is ready no request is routed.
C16_BalancerRoutesToReady ==
    /\ [](IsSome(last_route) => RouteIsP2C(Unwrap(last_route)))
    /\ [](\A n \in 1..Len(reqs) :
            reqs[n].state \in {"passed", "done"} => IsSome(reqs[n].endpoint))
    /\ [][SetChanged => ChangeApplied]_vars
    /\ [][ReadySet(endpoints) = {} =>
            \A n \in 1..Len(reqs) : reqs[n].state = "queued" => reqs'[n].state = "queued"]_vars

\* two ready endpoints, one carrying a request: the next goes to the other
C16_Witness ==
    /\ IsSome(last_route)
    /\ ReadySet(Unwrap(last_route).set) = {"u1", "u2"}
    /\ Unwrap(last_route).set["u1"].load = 1
    /\ Unwrap(last_route).set["u2"].load = 0
    /\ Unwrap(last_route).chosen = "u2"
    /\ Unwrap(last_route).request = 2

\* every worker made was started
WorkersStarted == \A i \in Pipes : pipes[i].worker # "created"

\* C17: Channel::new never invokes the connector while constructing: the
\* first connection attempt comes after the first request was submitted, and
\* a worker is started. Channel::connect invokes it before returning: when
\* the connection fails there is an error, no Channel and no worker; when it
\* succeeds the channel is the one Channel::new makes, over a Connection with
\* the same buffer size.
C17_LazyAndEager ==
    /\ built.op = "new" =>
          /\ built.result = "channel"
          /\ Len(pipes) >= 1 /\ WorkersStarted
          /\ connector_calls > 0 => Len(reqs) > 0
    /\ built.op = "connect" =>
          /\ connector_calls >= 1
          /\ built.result \in {"channel", "error"}
          /\ built.result = "error" => pipes = <<>> /\ handles = <<>>
          /\ built.result = "channel" =>
                /\ Len(pipes) >= 1 /\ WorkersStarted
                /\ pipes[1].svc.kind = Connection_lazy(built.arg).kind
                /\ pipes[1].capacity = buffer_size_of(built.arg)

\* a lazy channel connected once its first request was waiting
C17_Witness ==
    /\ built.op = "new"
    /\ connector_calls = 1
    /\ Len(reqs) = 1
    /\ pipes[1].svc.conn = "connected"
    /\ pipes[1].passed = <<1>>

\* a unary or server_streaming request of which the dispatcher pulled more
\* than one frame and is done reading
FurtherFrames ==
    /\ Started
    /\ pattern \in UnaryLike
    /\ ~ByDispatcher
    /\ polled.dispatcher >= 2

\* C18: in unary and server_streaming, when more than one message frame
\* comes before the trailers, the dispatcher reports an Internal error for
\* the frame after the first and the service is not invoked.
C18_FurtherFrameIsInternal ==
    FurtherFrames =>
        /\ svc_calls = 0
        /\ IsSome(failure)
        /\ Unwrap(failure).code = Internal

\* C18, as the code has it: the frames after the first are decoded and
\* dropped while the trailers are awaited. When all of them decode, the
\* service is invoked, once, with the request of the first message; when one
\* does not, the request fails with the decoder's status for that frame and
\* the service is not invoked.
C18_FurtherFramesAreDropped ==
    /\ FurtherFrames /\ pc = "service" =>
          /\ svc_calls = 1
          /\ IsSome(request)
          /\ stream.state = "Done"
          /\ stream.frames = polled.dispatcher
          /\ failure = None
    /\ FurtherFrames /\ pc = "done" /\ svc_calls = 0 =>
          /\ stream.state = "Error"
          /\ failure = Some(stream.status)
          /\ Unwrap(failure).code \in {Internal, ResourceExhausted}

\* the service is called after two request messages were read, no failure
C18_Witness ==
    /\ pattern = "unary"
    /\ pc = "service"
    /\ polled.dispatcher = 2
    /\ stream.frames = 2
    /\ svc_calls = 1
    /\ failure = None

\* the request a unary-like service is called with, its headers, its trailers
MergedRequest == pattern \in UnaryLike /\ pc = "service" /\ IsSome(request)
                    /\ IsSome(req_trailers)

\* C19: for a key that the headers and the trailers both carry, the request
\* metadata holds the headers' values followed by the trailers' values.
C19_TrailerValuesFollow ==
    MergedRequest =>
        \A k \in Keys :
            req.metadata[k] # <<>> /\ Unwrap(req_trailers)[k] # <<>> =>
                Unwrap(request).metadata[k] = req.metadata[k] \o Unwrap(req_trailers)[k]

\* C19, as the code has it: for a key that the headers and the trailers both
\* carry, the request metadata holds the trailers' values only, in their
\* order; the headers' values of that key are gone.
C19_TrailerValuesReplace ==
    MergedRequest =>
        \A k \in Keys :
            req.metadata[k] # <<>> /\ Unwrap(req_trailers)[k] # <<>> =>
                Unwrap(request).metadata[k] = Unwrap(req_trailers)[k]

\* key a has two values in the headers and two in the trailers
C19_Witness ==
    /\ MergedRequest
    /\ req.metadata["a"] = <<"h1", "h2">>
    /\ Unwrap(req_trailers)["a"] = <<"t1", "t2">>
    /\ Unwrap(request).metadata["a"] = <<"t1", "t2">>

(* ====================================================================== *)
(* Claims C21 - C23                                                        *)
(* ====================================================================== *)

\* the worker of pipeline i ended because the inner service's readiness failed
Terminated(i) == pipes[i].worker = "terminated"

\* C21: when the inner service's readiness fails, the worker terminates and
\* the queue closes; from then on the worker stays terminated, the inner
\* service stays failed (nothing reconnects or restarts), no handle becomes
\* ready again and every poll_ready, on every clone, returns Ready(Err).
C21_TerminatedForGood ==
    /\ [](\A i \in Pipes :
            /\ Terminated(i) <=> pipes[i].svc.conn = "failed"
            /\ Terminated(i) => pipes[i].queue = <<>>)
    /\ [](IsSome(last_poll) /\ Unwrap(last_poll).worker = "terminated" =>
            /\ Unwrap(last_poll).polled.ready
            /\ ~Unwrap(Unwrap(last_poll).polled.result).ok
            /\ ~handles[Unwrap(last_poll).handle].permit)
    /\ [][\A i \in Pipes : Terminated(i) =>
            /\ pipes'[i] = pipes[i]
            /\ \A h \in Handles :
                  handles[h].pipe = i /\ ~handles[h].permit => ~handles'[h].permit]_vars

\* the worker gone, the clone that held a credit polls and gets the error
C21_Witness ==
    /\ Len(handles) = 2
    /\ Terminated(1)
    /\ IsSome(last_poll)
    /\ Unwrap(last_poll).handle = 2
    /\ Unwrap(last_poll).held
    /\ Unwrap(last_poll).worker = "terminated"
    /\ Unwrap(last_poll).polled = Ready(Some(ResultErr(<<"transport", "closed">>)))

(* -------------- the responses, their futures being awaited -------------- *)

\* a channel over one lazy connection, each caller awaiting the future its
\* call returned
NextResponse ==
    \/ \E e \in Endpoints : Channel_new(e)
    \/ \E h \in Handles : poll_ready(h)
    \/ \E h \in Handles : Call(h)
    \/ \E i \in Pipes, ok \in BOOLEAN : Worker_connection(i, ok)
    \/ \E id \in 1..MaxReqs, ok \in BOOLEAN : inner_respond(id, ok)
    \/ \E id \in 1..MaxReqs : poll_response(id)

ResponseSpec ==
    /\ Init
    /\ [][NextResponse]_vars
    /\ \A id \in 1..MaxReqs : WF_vars(poll_response(id))

\* the request has its result: the inner call finished, or the worker ended
Completed(id) == id <= Len(reqs) /\ IsSome(reqs[id].result)

Resolved(id) == id <= Len(reqs) /\ IsSome(reqs[id].future)

NextSizes ==
    \/ \E e \in Endpoints : Channel_new(e)
    \/ \E e \in Endpoints, ok \in BOOLEAN : Channel_connect(e, ok)
    \/ \E c \in Capacities : balance_channel(c)
    \/ \E c \in Capacities : balance_channel_with_executor(c)
    \/ \E c \in Changes : tx_send(c)
    \/ \E h \in Handles : poll_ready(h)
    \/ \E h \in Handles : Call(h)
    \/ \E h \in Handles : Clone(h)
    \/ poll_discover

SizesSpec == Init /\ [][NextSizes]_vars

\* C23: the capacity given to balance_channel and
\* balance_channel_with_executor bounds the discovery change queue only: the
\* request buffer of the channel has the default size, 1024, whatever the
\* capacity. The request buffer of Channel::new and Channel::connect has the
\* endpoint's buffer_size when it is set and 1024 when it is not.
C23_RequestBufferSize ==
    HasChannel =>
        /\ built.op = "balance_channel" =>
              /\ discovery.capacity = built.arg
              /\ Len(discovery.queue) <= built.arg
              /\ \A i \in Pipes : pipes[i].capacity = 1024
        /\ built.op \in {"new", "connect"} =>
              \A i \in Pipes :
                  pipes[i].capacity =
                      IF built.arg.buffer_size = None THEN 1024
                      ELSE built.arg.buffer_size[1]

\* balance_channel(1): the change queue is full with one change, while the
\* request buffer holds two requests
C23_Witness ==
    /\ built = Built("balance_channel", "channel", 1)
    /\ Len(discovery.queue) = 1
    /\ Len(pipes[1].queue) = 2
    /\ pipes[1].capacity = DEFAULT_BUFFER_SIZE

====
